---- MODULE Spec2Model ----
(***************************************************************************)
(* Model of my_data_app.py: the CoinAfrique scraper (scrape_data and the   *)
(* script's scrape branch), the cached CSV reader (load_csv_data) with the *)
(* three views that use it, and the dashboard's price statistics           *)
(* (plot_category_stats_lite).                                             *)
(*                                                                         *)
(* Texts are sequences of one-character strings.  Python's None, a pandas  *)
(* NaN and a missing HTML element are sentinel sequences whose only        *)
(* element is longer than one character, so they never equal a text.       *)
(***************************************************************************)
EXTENDS Integers, Sequences, FiniteSets, TLC

----------------------------------------------------------------------------
(* Bounds of the model *)

\* largest page count the user selects in the content specifications
MaxPages == 2
\* most ad cards served by the site over the life of the process
MaxRows == 2
\* most script runs that start a scrape over the life of the process
MaxScrapes == 1
\* most errors raised by the network and the database over the life of the
\* process
MaxFaults == 1
\* most rows of a data frame handed to the dashboard
MaxDfRows == 2
\* longest price text of the dashboard's first row
MaxPriceLen == 2

----------------------------------------------------------------------------
(* Program constants *)

SliderMin == 1
SliderMax == 120
CapMensClothes == 119
CapMensShoes == 119
CapChildrenClothes == 22
CapChildrenShoes == 8
TopN == 10

Cats == 1..4

\* the max_limit argument of the four scrape_data calls
max_limit(cat) ==
    CASE cat = 1 -> CapMensClothes
      [] cat = 2 -> CapMensShoes
      [] cat = 3 -> CapChildrenClothes
      [] cat = 4 -> CapChildrenShoes

\* the csv_name argument of the four scrape_data calls
csv_name(cat) ==
    CASE cat = 1 -> "mens_clothes_clean_data.csv"
      [] cat = 2 -> "mens_shoes_clean_data.csv"
      [] cat = 3 -> "children_clothes_clean_data.csv"
      [] cat = 4 -> "children_shoes_clean_data.csv"

\* the files of load_my_scraped_files
local_name(cat) ==
    CASE cat = 1 -> "men_clothes.csv"
      [] cat = 2 -> "men_shoes.csv"
      [] cat = 3 -> "children_clothes.csv"
      [] cat = 4 -> "children_shoes.csv"

ExportFiles == {csv_name(c) : c \in Cats}
LocalFiles == {local_name(c) : c \in Cats}
FileNames == ExportFiles \cup LocalFiles

----------------------------------------------------------------------------
(* Values *)

None == <<"None">>        \* Python's None: find() found nothing, get() no attribute
NoSpan == <<"NoSpan">>    \* a location element without a nested span
NaN == <<"NaN">>          \* a missing value of a data frame read from a file
SP == " "
CFA == <<"C", "F", "A">>

\* a min() that lets the request through: the cap is lost
MinIgnoresCap(a, b) == a

Min(a, b) == IF a <= b THEN a ELSE b
Range(s) == {s[i] : i \in 1..Len(s)}
SeqsUpTo(S, n) == UNION {[1..k -> S] : k \in 0..n}

----------------------------------------------------------------------------
(* Text operations of the extractor *)

RECURSIVE LStrip(_)
LStrip(s) == IF s # <<>> /\ Head(s) = SP THEN LStrip(Tail(s)) ELSE s

RECURSIVE RStrip(_)
RStrip(s) ==
    IF s # <<>> /\ s[Len(s)] = SP THEN RStrip(SubSeq(s, 1, Len(s) - 1)) ELSE s

\* str.strip()
Strip(s) == RStrip(LStrip(s))

\* str.replace(pat, ''): the occurrences of pat, left to right, removed
RECURSIVE Remove(_, _)
Remove(s, pat) ==
    IF Len(s) < Len(pat) THEN s
    ELSE IF SubSeq(s, 1, Len(pat)) = pat
         THEN Remove(SubSeq(s, Len(pat) + 1, Len(s)), pat)
         ELSE <<Head(s)>> \o Remove(Tail(s), pat)

\* .text.replace('CFA', '').replace(' ', '')
PriceText(s) == Remove(Remove(s, CFA), <<SP>>)

\* a container whose lookups raise: .text or .get of None, .text of a
\* missing span
Raises(c) ==
    \/ c.desc = None
    \/ c.price = None
    \/ c.loc = None
    \/ c.loc = NoSpan
    \/ ~c.img.found

\* img.get('src'): the attribute, or None when the element has none
ImgSrc(img) == img.src

\* the tuple (t, p, a, i) bound to the INSERT
Extract(c) == <<Strip(c.desc), PriceText(c.price), Strip(c.loc), ImgSrc(c.img)>>

----------------------------------------------------------------------------
(* The ad cards the site serves *)

\* find('img', 'ad__card-img'): found or not, and the src attribute of the
\* element found (None when it has none)
Img(src) == [found |-> TRUE, src |-> src]
NoImgElement == [found |-> FALSE, src |-> None]

Card1 == [desc |-> <<SP, "a">>, price |-> <<"1", SP, "C", "F", "A">>,
          loc |-> <<"D", SP>>, img |-> Img(<<"u">>)]
\* another markup of the same listing
Card1b == [desc |-> <<"a">>, price |-> <<"1", "C", "F", "A">>,
           loc |-> <<"D">>, img |-> Img(<<"u">>)]
Card2 == [desc |-> <<"b">>, price |-> <<"C", "F", "A">>,
          loc |-> <<"D">>, img |-> Img(<<"u">>)]

WellFormed == {Card1, Card1b, Card2}

NoDesc == [Card1 EXCEPT !.desc = None]
NoPrice == [Card1 EXCEPT !.price = None]
NoLoc == [Card1 EXCEPT !.loc = None]
NoLocSpan == [Card1 EXCEPT !.loc = NoSpan]
NoImg == [Card1 EXCEPT !.img = NoImgElement]
NoImgSrc == [Card1 EXCEPT !.img = Img(None)]

Malformed == {NoDesc, NoPrice, NoLoc, NoLocSpan, NoImg, NoImgSrc}

Containers == WellFormed \cup Malformed

\* the cards of the specifications that follow whole sessions: a well-formed
\* card, a card whose lookup raises, a card whose image has no src
SessionCards == {Card1, NoPrice, NoImgSrc}

\* the pages a fetch may return: up to n cards
PagesOf(cards, n) == SeqsUpTo(cards, n)

\* the rows a table may hold when the process starts: the database file
\* outlives the process
StoredTables == {<<>>, <<Extract(Card1), Extract(NoImgSrc)>>}

----------------------------------------------------------------------------
(* pandas *)

\* DataFrame.drop_duplicates(): keep='first'
RECURSIVE DropDuplicatesFrom(_, _)
DropDuplicatesFrom(rows, seen) ==
    IF rows = <<>> THEN <<>>
    ELSE IF Head(rows) \in seen
         THEN DropDuplicatesFrom(Tail(rows), seen)
         ELSE <<Head(rows)>> \o DropDuplicatesFrom(Tail(rows), seen \cup {Head(rows)})

Reverse(s) == [i \in 1..Len(s) |-> s[Len(s) + 1 - i]]

\* drop_duplicates(keep='last')
DropDuplicatesKeepLast(rows) == Reverse(DropDuplicatesFrom(Reverse(rows), {}))

DropDuplicates(rows) == DropDuplicatesFrom(rows, {})

\* DataFrame.to_csv: a None is written as an empty field
ToCsvField(v) == IF v = None THEN <<>> ELSE v
ToCsv(rows) == [i \in 1..Len(rows) |-> [j \in 1..4 |-> ToCsvField(rows[i][j])]]

\* pd.read_csv: an empty field is read as NaN
FromCsvField(v) == IF v = <<>> THEN NaN ELSE v
ReadCsv(lines) == [i \in 1..Len(lines) |-> [j \in 1..4 |-> FromCsvField(lines[i][j])]]

----------------------------------------------------------------------------
(* plot_category_stats_lite *)

Digits == {"0", "1", "2", "3", "4", "5", "6", "7", "8", "9"}

DigitValue(d) ==
    CASE d = "0" -> 0 [] d = "1" -> 1 [] d = "2" -> 2 [] d = "3" -> 3 [] d = "4" -> 4
      [] d = "5" -> 5 [] d = "6" -> 6 [] d = "7" -> 7 [] d = "8" -> 8 [] d = "9" -> 9

IsDigit(ch) == ch \in Digits

\* Series.astype(str): a NaN becomes the text nan
AsStr(v) == IF v = NaN THEN <<"n", "a", "n">> ELSE v

\* the digits before the first character that is no digit
RECURSIVE LeadingDigits(_)
LeadingDigits(s) ==
    IF s = <<>> \/ ~IsDigit(Head(s)) THEN <<>> ELSE <<Head(s)>> \o LeadingDigits(Tail(s))

\* .str.replace(r'[^\d]', '', regex=True)
StripNonDigits(s) == SelectSeq(s, IsDigit)

RECURSIVE ParseDigits(_, _)
ParseDigits(s, acc) ==
    IF s = <<>> THEN acc ELSE ParseDigits(Tail(s), 10 * acc + DigitValue(Head(s)))

\* pd.to_numeric(..., errors='coerce'): the empty text is NaN
ToNumeric(s) ==
    IF s = <<>> THEN [nan |-> TRUE, val |-> 0] ELSE [nan |-> FALSE, val |-> ParseDigits(s, 0)]

\* df['clean_price']
CleanPrice(price) == ToNumeric(StripNonDigits(AsStr(price)))

RECURSIVE SumSeq(_)
SumSeq(s) == IF s = <<>> THEN 0 ELSE Head(s) + SumSeq(Tail(s))

MaxOf(S) == CHOOSE m \in S : \A x \in S : x <= m

\* Series.value_counts(): the count of each value, a NaN is not counted
ValueCounts(col) ==
    [v \in Range(col) \ {NaN} |-> Cardinality({i \in 1..Len(col) : col[i] = v})]

\* .head(10) of a value_counts: ten values that no value left out outnumbers
Head10(vc) ==
    IF Cardinality(DOMAIN vc) <= TopN THEN vc
    ELSE LET top == CHOOSE T \in SUBSET DOMAIN vc :
                        /\ Cardinality(T) = TopN
                        /\ \A a \in T, b \in (DOMAIN vc) \ T : vc[a] >= vc[b]
         IN  [v \in top |-> vc[v]]

Column(d, j) == [i \in 1..Len(d) |-> d[i][j]]

\* what the function shows for a data frame in the export format
PlotCategoryStatsLite(d) ==
    IF d = <<>>
    THEN [input |-> d, warning |-> TRUE, total_items |-> 0, priced |-> FALSE,
          avg_price |-> 0, max_price |-> 0, top_locations |-> <<>>,
          top_items |-> <<>>, histogram |-> <<>>]
    ELSE LET clean == [i \in 1..Len(d) |-> CleanPrice(d[i][2])]
             kept == SelectSeq(clean, LAMBDA c : ~c.nan)
             prices == [i \in 1..Len(kept) |-> kept[i].val]
         IN  [input |-> d,
              warning |-> FALSE,
              total_items |-> Len(d),
              priced |-> prices # <<>>,
              avg_price |-> IF prices # <<>> THEN SumSeq(prices) \div Len(prices) ELSE 0,
              max_price |-> IF prices # <<>> THEN MaxOf(Range(prices)) ELSE 0,
              top_locations |-> Head10(ValueCounts(Column(d, 3))),
              top_items |-> Head10(ValueCounts(Column(d, 1))),
              histogram |-> IF prices # <<>> THEN prices ELSE <<>>]

----------------------------------------------------------------------------
(* State *)

VARIABLES
    pc,             \* where the script is
    Pages,          \* the sidebar slider
    cat,            \* the category whose scrape_data call is running
    conn,           \* the connection of that call: "none", "open", "closed"
    actual_pages,   \* scrape_data's local
    index,          \* the loop variable
    containers,     \* the containers of the page not yet visited
    pending,        \* the open transaction: inserted, not committed
    table,          \* the committed rows of each category's table
    df,             \* scrape_data's data frame
    fs,             \* the files of the project folder
    cache,          \* st.cache_data's entries of load_csv_data
    lastView,       \* what the last view got from load_csv_data
    plots,          \* what the dashboard shows
    fetched,        \* history: the page indexes fetched by this call
    failed,         \* history: the page indexes whose fetch failed
    committed,      \* history: the pages of this call whose commit succeeded
    raised,         \* history: the statements of this call that raised
    selected,       \* history: the rows the SELECT of this call returned
    exported,       \* history: this call wrote its export file
    budget,         \* the ad cards the site may still serve
    scrapes,        \* the scrape runs the user may still start
    faults          \* the errors the network and the database may still raise

vars == <<pc, Pages, cat, conn, actual_pages, index, containers, pending, table,
          df, fs, cache, lastView, plots, fetched, failed, committed, raised,
          selected, exported, budget, scrapes, faults>>

loopVars == <<actual_pages, index, containers>>
storeVars == <<pending, table>>
fileVars == <<fs, cache, lastView, plots>>
histVars == <<fetched, failed, committed, raised, selected, exported>>
envVars == <<budget, scrapes, faults>>

NoFile == [exists |-> FALSE, lines |-> <<>>]
File(lines) == [exists |-> TRUE, lines |-> lines]
NotCached == [cached |-> FALSE, df |-> <<>>]
Cached(d) == [cached |-> TRUE, df |-> d]

Rows(p) == [i \in 1..Len(p) |-> p[i].row]

\* the script has ended and waits for the next interaction
Waiting == pc \in {"idle", "aborted"}

\* the process starts: the script has drawn the page, no scrape is running;
\* that `cards` ad cards are left to serve and `errors` errors left to raise
InitWith(stored, localFiles, cards, errors) ==
    /\ pc = "idle"
    /\ Pages = SliderMin
    /\ cat = 1
    /\ conn = "none"
    /\ actual_pages = 0
    /\ index = 0
    /\ containers = <<>>
    /\ pending = <<>>
    /\ table = [c \in Cats |-> IF c = 1 THEN stored ELSE <<>>]
    /\ df = <<>>
    /\ fs = [f \in FileNames |->
                IF f \in localFiles THEN File(ToCsv(<<Extract(Card1)>>)) ELSE NoFile]
    /\ cache = [f \in FileNames |-> NotCached]
    /\ lastView = {}
    /\ plots = <<>>
    /\ fetched = <<>>
    /\ failed = {}
    /\ committed = {}
    /\ raised = {}
    /\ selected = <<>>
    /\ exported = FALSE
    /\ budget = cards
    /\ scrapes = MaxScrapes
    /\ faults = errors

Init == \E stored \in StoredTables : InitWith(stored, {}, MaxRows, MaxFaults)

----------------------------------------------------------------------------
(* The scrape branch of the script and scrape_data *)

\* the network or the database raises an error
Fault(at) ==
    /\ faults > 0
    /\ faults' = faults - 1
    /\ raised' = raised \cup {at}

\* scrape_data is called for category c: conn = sqlite3.connect(db_name);
\* c = conn.cursor()
Connect(c) ==
    /\ cat' = c
    /\ conn' = "open"
    /\ pending' = <<>>
    /\ actual_pages' = 0
    /\ index' = 0
    /\ containers' = <<>>
    /\ df' = <<>>
    /\ fetched' = <<>>
    /\ failed' = {}
    /\ committed' = {}
    /\ raised' = {}
    /\ selected' = <<>>
    /\ exported' = FALSE
    /\ pc' = "create"

\* the user picks the page count and the scrape mode: the script reruns and
\* calls scrape_data for the first category
SelectScrape(p) ==
    /\ Waiting
    /\ scrapes > 0
    /\ scrapes' = scrapes - 1
    /\ Pages' = p
    /\ lastView' = {}
    /\ Connect(1)
    /\ plots' = <<>>
    /\ UNCHANGED <<table, fs, cache, budget, faults>>

\* the exception leaves scrape_data and ends the script run; the connection
\* is left as it is and its open transaction is never committed
Abort(at) ==
    /\ Fault(at)
    /\ pc' = "aborted"
    /\ pending' = <<>>
    /\ UNCHANGED <<Pages, cat, conn, loopVars, table, df, fileVars, fetched, failed,
                   committed, selected, exported, budget, scrapes>>

\* CREATE TABLE IF NOT EXISTS; actual_pages = min(user_pages, max_limit)
CreateTable ==
    /\ pc = "create"
    /\ actual_pages' = Min(Pages, max_limit(cat))
    /\ index' = 1
    /\ containers' = <<>>
    /\ pc' = "fetch"
    /\ UNCHANGED <<Pages, cat, conn, storeVars, df, fileVars, histVars, envVars>>

CreateTableFails ==
    /\ pc = "create"
    /\ Abort("create")

\* get(url?page=index), bs(), find_all(): the containers of the page
FetchOk(page) ==
    /\ pc = "fetch"
    /\ Len(page) <= budget
    /\ budget' = budget - Len(page)
    /\ fetched' = Append(fetched, index)
    /\ containers' = page
    /\ pc' = IF page = <<>> THEN "commit" ELSE "extract"
    /\ UNCHANGED <<Pages, cat, conn, actual_pages, index, storeVars, df, fileVars,
                   failed, committed, raised, selected, exported, scrapes, faults>>

\* the end of the loop body: my_bar.progress(index / actual_pages), then the
\* next index or the end of the loop
Progress ==
    IF index < actual_pages
    THEN /\ index' = index + 1
         /\ pc' = "fetch"
    ELSE /\ index' = index
         /\ pc' = "read"

\* a fetch whose error is not caught
FetchFailsAborts ==
    /\ pc = "fetch"
    /\ Fault("fetch")
    /\ fetched' = Append(fetched, index)
    /\ failed' = failed \cup {index}
    /\ pc' = "aborted"
    /\ pending' = <<>>
    /\ UNCHANGED <<Pages, cat, conn, loopVars, table, df, fileVars, committed,
                   selected, exported, budget, scrapes>>

\* get() or the parse raises: the outer except
FetchFails ==
    /\ pc = "fetch"
    /\ Fault("fetch")
    /\ fetched' = Append(fetched, index)
    /\ failed' = failed \cup {index}
    /\ Progress
    /\ UNCHANGED <<Pages, cat, conn, actual_pages, containers, storeVars, df,
                   fileVars, committed, selected, exported, budget, scrapes>>

\* the next container, or the end of the inner loop
NextContainer ==
    /\ containers' = Tail(containers)
    /\ pc' = IF Tail(containers) = <<>> THEN "commit" ELSE "extract"

\* the four lookups succeed and the INSERT is executed
InsertRecord ==
    /\ pc = "extract"
    /\ ~Raises(Head(containers))
    /\ pending' = Append(pending, [row |-> Extract(Head(containers)), page |-> index])
    /\ NextContainer
    /\ UNCHANGED <<Pages, cat, conn, actual_pages, index, table, df, fileVars,
                   fetched, failed, committed, raised, selected, exported, envVars>>

\* an INSERT whose error is not caught
InsertFailsAborts ==
    /\ pc = "extract"
    /\ ~Raises(Head(containers))
    /\ Abort("insert")

\* the four lookups succeed and the INSERT raises: the inner except
InsertFails ==
    /\ pc = "extract"
    /\ ~Raises(Head(containers))
    /\ Fault("insert")
    /\ NextContainer
    /\ UNCHANGED <<Pages, cat, conn, actual_pages, index, storeVars, df, fileVars,
                   fetched, failed, committed, selected, exported, budget, scrapes>>

\* a lookup raises: the inner except
SkipContainer ==
    /\ pc = "extract"
    /\ Raises(Head(containers))
    /\ NextContainer
    /\ UNCHANGED <<Pages, cat, conn, actual_pages, index, storeVars, df, fileVars,
                   histVars, envVars>>

\* conn.commit()
CommitOk ==
    /\ pc = "commit"
    /\ table' = [table EXCEPT ![cat] = @ \o Rows(pending)]
    /\ pending' = <<>>
    /\ committed' = committed \cup {index}
    /\ Progress
    /\ UNCHANGED <<Pages, cat, conn, actual_pages, containers, df, fileVars, fetched,
                   failed, raised, selected, exported, envVars>>

\* conn.commit() raises: the outer except.  The transaction stays open (the
\* database is locked) or the engine has rolled it back
CommitFails(keep) ==
    /\ pc = "commit"
    /\ Fault("commit")
    /\ pending' = IF keep THEN pending ELSE <<>>
    /\ Progress
    /\ UNCHANGED <<Pages, cat, conn, actual_pages, containers, table, df, fileVars,
                   fetched, failed, committed, selected, exported, budget, scrapes>>

\* pd.read_sql_query('SELECT * FROM table', conn): the committed rows and the
\* rows of the connection's own open transaction
ReadTable ==
    /\ pc = "read"
    /\ df' = table[cat] \o Rows(pending)
    /\ selected' = table[cat] \o Rows(pending)
    /\ pc' = "close"
    /\ UNCHANGED <<Pages, cat, conn, loopVars, storeVars, fileVars, fetched, failed,
                   committed, raised, exported, envVars>>

ReadTableFails ==
    /\ pc = "read"
    /\ Abort("read")

\* conn.close(): an open transaction is rolled back.  Then, if not df.empty:
\* drop_duplicates, to_csv; return df
CloseAndExport ==
    /\ pc = "close"
    /\ conn' = "closed"
    /\ pending' = <<>>
    /\ IF df # <<>>
       THEN /\ df' = DropDuplicates(df)
            /\ fs' = [fs EXCEPT ![csv_name(cat)] = File(ToCsv(DropDuplicates(df)))]
            /\ exported' = TRUE
       ELSE UNCHANGED <<df, fs, exported>>
    /\ pc' = "returned"
    /\ UNCHANGED <<Pages, cat, loopVars, table, cache, lastView, plots, fetched, failed,
                   committed, raised, selected, envVars>>

\* load(df, ...), then the next scrape_data call
NextCategory ==
    /\ pc = "returned"
    /\ cat < 4
    /\ Connect(cat + 1)
    /\ UNCHANGED <<Pages, table, fileVars, envVars>>

\* load(df, ...) of the last category: the script ends and its variables go
EndScript ==
    /\ pc = "returned"
    /\ cat = 4
    /\ pc' = "idle"
    /\ conn' = "none"
    /\ cat' = 1
    /\ actual_pages' = 0
    /\ index' = 0
    /\ df' = <<>>
    /\ fetched' = <<>>
    /\ failed' = {}
    /\ committed' = {}
    /\ raised' = {}
    /\ selected' = <<>>
    /\ exported' = FALSE
    /\ UNCHANGED <<Pages, containers, storeVars, fileVars, envVars>>

ScrapeStep(pageCounts, pages) ==
    \/ \E p \in pageCounts : SelectScrape(p)
    \/ CreateTable
    \/ CreateTableFails
    \/ \E page \in pages : FetchOk(page)
    \/ FetchFails
    \/ InsertRecord
    \/ InsertFails
    \/ SkipContainer
    \/ CommitOk
    \/ \E keep \in BOOLEAN : CommitFails(keep)
    \/ ReadTable
    \/ ReadTableFails
    \/ CloseAndExport
    \/ NextCategory
    \/ EndScript

Next == ScrapeStep(SliderMin..MaxPages, PagesOf(SessionCards, MaxRows))

\* whole sessions: one to MaxPages pages of the session cards, with errors
Spec == Init /\ [][Next]_vars

----------------------------------------------------------------------------
(* The extractor over every kind of ad card *)

NextExtract == ScrapeStep({SliderMin}, PagesOf(Containers, MaxRows))

SpecExtract == Init /\ [][NextExtract]_vars

----------------------------------------------------------------------------
(* The page range: every slider value, the four caps, a site without listings
   and no errors *)

InitPages == InitWith(<<>>, {}, 0, 0)

NextPages ==
    \/ \E p \in SliderMin..SliderMax : SelectScrape(p)
    \/ CreateTable
    \/ FetchOk(<<>>)
    \/ CommitOk
    \/ ReadTable
    \/ CloseAndExport
    \/ NextCategory
    \/ EndScript

SpecPages == InitPages /\ [][NextPages]_vars

----------------------------------------------------------------------------
(* The cached reader and the views that use it *)

\* the body of load_csv_data
LoadCsvBody(filename) ==
    IF fs[filename].exists THEN ReadCsv(fs[filename].lines) ELSE <<>>

\* load_csv_data under st.cache_data: the entry of the argument when there is
\* one, the body otherwise
load_csv_data(filename) ==
    IF cache[filename].cached THEN cache[filename].df ELSE LoadCsvBody(filename)

\* the script reruns in a mode that calls load_csv_data for these files
View(files) ==
    /\ Waiting
    /\ pc' = "idle"
    /\ cache' = [f \in FileNames |->
                    IF f \in files THEN Cached(load_csv_data(f)) ELSE cache[f]]
    /\ lastView' = {[file |-> f, df |-> load_csv_data(f)] : f \in files}
    /\ UNCHANGED <<Pages, cat, conn, loopVars, storeVars, df, fs, histVars, envVars>>

\* 'Download scraped data'
ViewDownload ==
    /\ View(ExportFiles)
    /\ plots' = <<>>

\* 'Load My Scraped Files': load_my_scraped_files
ViewLocalFiles ==
    /\ View(LocalFiles)
    /\ plots' = <<>>

\* safe_plot: the first file of the list that exists
UsedFile(c) ==
    IF fs[local_name(c)].exists THEN {local_name(c)}
    ELSE IF fs[csv_name(c)].exists THEN {csv_name(c)}
    ELSE {}

\* safe_plot: the data frame of a tab
TabFrame(c) ==
    IF UsedFile(c) = {} THEN <<>> ELSE load_csv_data(CHOOSE f \in UsedFile(c) : TRUE)

\* 'Dashbord of the data'
ViewDashboard ==
    /\ View(UNION {UsedFile(c) : c \in Cats})
    /\ plots' = [c \in Cats |-> PlotCategoryStatsLite(TabFrame(c))]

InitViews == \E localFiles \in {{}, {local_name(1)}} : InitWith(<<>>, localFiles, MaxRows, MaxFaults)

NextViews ==
    \/ ScrapeStep({SliderMin}, PagesOf(SessionCards, MaxRows))
    \/ ViewDownload
    \/ ViewLocalFiles
    \/ ViewDashboard

SpecViews == InitViews /\ [][NextViews]_vars

----------------------------------------------------------------------------
(* The dashboard's statistics over bounded data frames *)

PriceAlphabet == {"0", "1", "2", SP, "C", "."}
SamplePrice == <<"1", "2", SP, "5", "0", "0", SP, "C", "F", "A">>

DashRow(price, address) == <<<<"a">>, price, address, <<"u">>>>

\* the first row: every price text up to MaxPriceLen and the sample
FirstRows ==
    {DashRow(p, a) : p \in SeqsUpTo(PriceAlphabet, MaxPriceLen) \cup {SamplePrice},
                     a \in {<<"D">>, NaN}}

OtherRows ==
    {DashRow(p, a) : p \in {<<"7">>, CFA, NaN}, a \in {<<"D">>, <<"T">>}}

DashFrames ==
    {<<>>} \cup {<<r>> \o rest : r \in FirstRows, rest \in SeqsUpTo(OtherRows, MaxDfRows - 1)}

\* safe_plot calls plot_category_stats_lite(df, name)
PlotFrame(d) ==
    /\ pc = "idle"
    /\ plots = <<>>
    /\ plots' = <<PlotCategoryStatsLite(d)>>
    /\ UNCHANGED <<pc, Pages, cat, conn, loopVars, storeVars, df, fs, cache, lastView,
                   histVars, envVars>>

NextDash == \E d \in DashFrames : PlotFrame(d)

InitDash == InitWith(<<>>, {}, 0, 0)

SpecDash == InitDash /\ [][NextDash]_vars

----------------------------------------------------------------------------
(* Properties *)

Upto(n) == [i \in 1..n |-> i]

\* the call has left the page loop by its end
PastLoop == pc \in {"read", "close", "returned"}

\* the call is inside the page loop
InLoop == pc \in {"fetch", "extract", "commit"}

\* the page caps as the specification states them
StatedCap == <<119, 119, 22, 8>>

EffectivePages(requested, c) ==
    IF requested <= StatedCap[c] THEN requested ELSE StatedCap[c]

\* C1: a scrape_data call fetches the pages 1, 2, ..., min(requested, cap),
\* each once and in this order: inside the loop the pages fetched are an
\* initial piece of that range, and after the loop they are the whole range.
C1_PagesFetched ==
    /\ Pages \in SliderMin..SliderMax
    /\ pc = "fetch" => fetched = Upto(index - 1) /\ index <= EffectivePages(Pages, cat)
    /\ pc \in {"extract", "commit"} =>
            fetched = Upto(index) /\ index <= EffectivePages(Pages, cat)
    /\ PastLoop => fetched = Upto(EffectivePages(Pages, cat))

\* cap 8, requested 120: eight fetches
C1_Witness ==
    /\ pc = "returned"
    /\ cat = 4
    /\ Pages = 120
    /\ fetched = <<1, 2, 3, 4, 5, 6, 7, 8>>

\* C2: a failed fetch does not end the session.  Once a fetch of the call has
\* failed, the call is aborted only by the final read; the connection stays
\* open through the loop; every page of the range is still fetched; every
\* later page whose fetch and commit raise nothing is committed; and the call
\* goes on to the read and the export.
C2_FetchFailureIsLocal ==
    failed # {} =>
        /\ pc = "aborted" => "read" \in raised
        /\ InLoop \/ pc = "read" => conn = "open"
        /\ pc = "fetch" => fetched = Upto(index - 1)
        /\ PastLoop \/ pc = "aborted" =>
              /\ fetched = Upto(actual_pages)
              /\ "commit" \notin raised => committed = (1..actual_pages) \ failed
        /\ pc = "returned" /\ "commit" \notin raised => selected = table[cat]
        /\ pc = "returned" /\ selected # <<>> => exported

\* page 1 fails, page 2 is fetched, its record committed and exported
C2_Witness ==
    /\ pc = "returned"
    /\ cat = 2
    /\ failed = {1}
    /\ fetched = <<1, 2>>
    /\ committed = {2}
    /\ table[2] = <<Extract(Card1)>>
    /\ fs[csv_name(2)] = File(ToCsv(<<Extract(Card1)>>))

\* a card that lacks a required field, as the specification lists them
MissingField(c) ==
    \/ c.desc = None
    \/ c.price = None
    \/ c.loc = None
    \/ c.loc = NoSpan
    \/ ~c.img.found
    \/ c.img.src = None

\* C3: a container that lacks a required field (the description, the price,
\* the location or its span, the image or its src attribute) inserts no
\* record.
C3_MalformedInsertsNothing ==
    [][pc = "extract" /\ MissingField(Head(containers)) => pending' = pending]_vars

\* C4: when a call returns and the category's export file exists, the file
\* holds the de-duplicated rows of the committed table.
C4_ExportMatchesTable ==
    pc = "returned" /\ fs[csv_name(cat)].exists =>
        fs[csv_name(cat)].lines = ToCsv(DropDuplicates(table[cat]))

\* the indexes at which a value occurs for the first time
FirstIndexes(s) == {i \in 1..Len(s) : \A j \in 1..(i - 1) : s[j] # s[i]}

\* the k-th smallest element of a set of numbers
Nth(S, k) == CHOOSE i \in S : Cardinality({j \in S : j <= i}) = k

FirstOccurrences(s) ==
    [k \in 1..Cardinality(FirstIndexes(s)) |-> s[Nth(FirstIndexes(s), k)]]

\* C5: the exported table holds each distinct row of the rows read exactly
\* once, at the place of its first occurrence and in the order read; the file
\* holds the same rows; and de-duplicating the result again changes nothing.
C5_ExportDeduplicates ==
    pc = "returned" =>
        /\ df = FirstOccurrences(selected)
        /\ \A r \in Range(selected) : Cardinality({i \in 1..Len(df) : df[i] = r}) = 1
        /\ Range(df) = Range(selected)
        /\ exported => fs[csv_name(cat)].lines = ToCsv(FirstOccurrences(selected))
        /\ DropDuplicates(df) = df

\* a row stored by an earlier run and inserted again by this one is exported
\* once, where it first occurs
C5_Witness ==
    /\ pc = "returned"
    /\ raised = {}
    /\ selected = <<Extract(Card1), Extract(NoImgSrc), Extract(Card1)>>
    /\ df = <<Extract(Card1), Extract(NoImgSrc)>>
    /\ fs[csv_name(cat)] = File(ToCsv(df))

\* C6: what a view gets from load_csv_data for a file is what the file holds
\* when the view reads it (nothing, when there is no file).
C6_ReloadOnChange == \A v \in lastView : v.df = LoadCsvBody(v.file)

HasDigit(s) == \E i \in 1..Len(s) : s[i] \in Digits

DigitIndexes(s) == {i \in 1..Len(s) : s[i] \in Digits}

RECURSIVE Pow10(_)
Pow10(n) == IF n = 0 THEN 1 ELSE 10 * Pow10(n - 1)

\* the sum of the values of a function over a set of its arguments
RECURSIVE SumOver(_, _)
SumOver(S, f) ==
    IF S = {} THEN 0 ELSE LET x == CHOOSE y \in S : TRUE IN f[x] + SumOver(S \ {x}, f)

\* the integer that the digit characters of a text form
DigitNumber(s) ==
    LET place(i) == Cardinality({j \in DigitIndexes(s) : j > i})
        term == [i \in DigitIndexes(s) |-> DigitValue(s[i]) * Pow10(place(i))]
    IN  SumOver(DigitIndexes(s), term)

PricedRows(d) == {i \in 1..Len(d) : HasDigit(d[i][2])}

CountOf(d, j, v) == Cardinality({i \in 1..Len(d) : d[i][j] = v})

\* the price aggregates are those of the rows whose price has a digit, each
\* valued by its digits
PriceAggregates(p) ==
    LET d == p.input
        P == PricedRows(d)
        value == [i \in 1..Len(d) |-> DigitNumber(d[i][2])]
    IN  /\ p.priced <=> P # {}
        /\ P # {} =>
              /\ p.max_price \in {value[i] : i \in P}
              /\ \A i \in P : value[i] <= p.max_price
              /\ p.avg_price * Cardinality(P) <= SumOver(P, value)
              /\ SumOver(P, value) < (p.avg_price + 1) * Cardinality(P)
        /\ Len(p.histogram) = Cardinality(P)
        /\ \A i \in P :
              Cardinality({k \in 1..Len(p.histogram) : p.histogram[k] = value[i]})
                = Cardinality({j \in P : value[j] = value[i]})
        /\ \A i \in 1..Len(d) : d[i][2] = SamplePrice => value[i] = 12500

\* the categorical aggregates count every row, whatever its price
CategoricalAggregates(p) ==
    LET d == p.input
    IN  /\ \A i \in 1..Len(d) :
              d[i][3] # NaN => p.top_locations[d[i][3]] = CountOf(d, 3, d[i][3])
        /\ \A i \in 1..Len(d) :
              d[i][1] # NaN => p.top_items[d[i][1]] = CountOf(d, 1, d[i][1])

Shown == {plots[i] : i \in 1..Len(plots)}

C8_CommitWindow ==
    /\ pc = "fetch" => pending = <<>>
    /\ \A i, j \in 1..Len(pending) : pending[i].page = pending[j].page

\* C9 as stated: a failed CREATE TABLE or a failed INSERT aborts the session.
C9_PersistenceFailureAborts ==
    "create" \in raised \/ "insert" \in raised => pc = "aborted"

\* C9: a failed CREATE TABLE aborts the session before any page is fetched,
\* any record inserted or any export written.  A failed INSERT does not: the
\* container is skipped, the session is aborted only by the final read, every
\* page of the range is fetched and the rows read are exported.
C9_CreateAbortsInsertSkips ==
    /\ "create" \in raised =>
          /\ pc = "aborted"
          /\ fetched = <<>>
          /\ pending = <<>>
          /\ ~exported
    /\ "insert" \in raised =>
          /\ pc = "aborted" => "read" \in raised
          /\ PastLoop => fetched = Upto(actual_pages)
          /\ pc = "returned" /\ selected # <<>> => exported

\* an INSERT fails, another record of the call is committed and exported
C9_Witness ==
    /\ pc = "returned"
    /\ cat = 2
    /\ raised = {"insert"}
    /\ table[2] = <<Extract(Card1)>>
    /\ budget = 0
    /\ fs[csv_name(2)] = File(ToCsv(<<Extract(Card1)>>))

\* C10: when scrape_data is left, by its return or by an error, its
\* connection is closed.
C10_ConnectionClosedAtExit ==
    pc \in {"returned", "aborted"} => conn = "closed"

====
